---------------------------- MODULE Spec2Model ----------------------------
(***************************************************************************)
(* A model of rtealwitter/datamining2026spring:                            *)
(*   docs/psets/starter_code/spam_bag_of_words.py  (download, extract,     *)
(*       tokenize, load_sms_from_url, build_vocab, vectorize_df)           *)
(*   grades/to_canvas.py  (guess_columns, build_canvas_dataframe)          *)
(*                                                                         *)
(* Four specifications share the module:                                   *)
(*   TokSpec    tokenize applied to bounded texts                          *)
(*   Spec       build_vocab followed by vectorize_df on bounded corpora    *)
(*   LoadSpec   download / extract / load_sms_from_url on a file system    *)
(*   CanvasSpec build_canvas_dataframe on bounded gradebook tables         *)
(* A text is a sequence of one-character strings; a token is a text.       *)
(***************************************************************************)
EXTENDS Integers, Sequences, FiniteSets, TLC

VARIABLES
    \* ---- tokenize ----
    text,       \* the argument of tokenize
    tokens,     \* its return value
    tpc,        \* "call" before the call, "done" after it
    \* ---- build_vocab / vectorize_df ----
    docs,       \* the corpus handed to build_vocab
    min_df,     \* build_vocab's min_df argument
    max_vocab,  \* build_vocab's max_vocab argument
    nitems,     \* len(items): the tokens that pass the min_df filter
    vocab,      \* the returned dict, as the sequence of its tokens by index
    vdocs,      \* the docs handed to vectorize_df
    index,      \* vectorize_df's index argument
    bow,        \* vectorize_df's outcome
    bpc,        \* "start", "vocab" (build_vocab returned), "done"
    \* ---- download / extract / load_sms_from_url ----
    files,      \* regular files: path -> content
    dirs,       \* directories that exist
    tarFilter,  \* the default extraction filter of the tarfile build in use
    fetches,    \* responses copied to a destination so far
    ncalls,     \* calls made so far
    last,       \* the record of the last call
    \* ---- build_canvas_dataframe ----
    df,         \* the input table
    out_df,     \* the returned table
    cpc         \* "call" before the call, "done" after it

vars == <<text, tokens, tpc, docs, min_df, max_vocab, nitems, vocab, vdocs,
          index, bow, bpc, files, dirs, tarFilter, fetches, ncalls, last,
          df, out_df, cpc>>

tokVars == <<text, tokens, tpc>>
bowVars == <<docs, min_df, max_vocab, nitems, vocab, vdocs, index, bow, bpc>>
loadVars == <<files, dirs, tarFilter, fetches, ncalls, last>>
canvasVars == <<df, out_df, cpc>>

None == "None"

\* an optional argument left out, or given
NoIndex == [given |-> FALSE]
GivenIndex(labels) == [given |-> TRUE, labels |-> labels]

TokIdle == text = <<>> /\ tokens = <<>> /\ tpc = "idle"
BowIdle ==
    /\ docs = <<>> /\ min_df = 0 /\ max_vocab = 0 /\ nitems = 0
    /\ vocab = <<>> /\ vdocs = <<>> /\ index = NoIndex /\ bow = None
    /\ bpc = "idle"
LoadIdle ==
    /\ files = <<>> /\ dirs = {} /\ tarFilter = None /\ fetches = 0
    /\ ncalls = 0 /\ last = None
CanvasIdle == df = None /\ out_df = None /\ cpc = "idle"

----------------------------------------------------------------------------
(***************************************************************************)
(* Characters and the character classes of the regular expressions.       *)
(***************************************************************************)
LowerSeq == <<"a","b","c","d","e","f","g","h","i","j","k","l","m",
              "n","o","p","q","r","s","t","u","v","w","x","y","z">>
UpperSeq == <<"A","B","C","D","E","F","G","H","I","J","K","L","M",
              "N","O","P","Q","R","S","T","U","V","W","X","Y","Z">>
LowerLetters == {LowerSeq[i] : i \in 1..Len(LowerSeq)}
UpperLetters == {UpperSeq[i] : i \in 1..Len(UpperSeq)}
Letters == LowerLetters \cup UpperLetters       \* [a-zA-Z]
Digits == {"0","1","2","3","4","5","6","7","8","9"}   \* \d
Whitespace == {" "}                              \* \s
Punct == {".", "-", "@", ":", "/", ","}
Alphabet == Letters \cup Digits \cup Whitespace \cup Punct
NonSpace == Alphabet \ Whitespace                \* \S
WordChars == Letters \cup Digits \cup {"_"}      \* \w
EmailChars == WordChars \cup {".", "-"}          \* [\w\.-]

\* str.lower() on one character
LowerChar(c) ==
    IF c \in UpperLetters
    THEN LowerSeq[CHOOSE i \in 1..Len(UpperSeq) : UpperSeq[i] = c]
    ELSE c

\* text.lower()
Lower(t) == [i \in 1..Len(t) |-> LowerChar(t[i])]

\* whether t has p at position i
StartsWithAt(t, i, p) ==
    /\ i + Len(p) - 1 <= Len(t)
    /\ \A k \in 1..Len(p) : t[i + k - 1] = p[k]

\* the first position >= i whose character is not in S (Len(t)+1 if none):
\* where a greedy S* started at i stops
RECURSIVE RunEnd(_, _, _)
RunEnd(t, i, S) ==
    IF i <= Len(t) /\ t[i] \in S THEN RunEnd(t, i + 1, S) ELSE i

HTTP == <<"h","t","t","p",":","/","/">>
HTTPS == <<"h","t","t","p","s",":","/","/">>
WWW == <<"w","w","w",".">>

\* A match of a pattern at position i is given by the position after its
\* last character; 0 means no match at i.

\* https?://\S+|www\.\S+
UrlPrefixEnd(t, i) ==
    IF StartsWithAt(t, i, HTTP) THEN i + Len(HTTP)
    ELSE IF StartsWithAt(t, i, HTTPS) THEN i + Len(HTTPS)
    ELSE IF StartsWithAt(t, i, WWW) THEN i + Len(WWW)
    ELSE 0

MatchUrl(t, i) ==
    LET j == UrlPrefixEnd(t, i)
    IN  IF j > 0 /\ j <= Len(t) /\ t[j] \in NonSpace
        THEN RunEnd(t, j, NonSpace)
        ELSE 0

\* \b at position i (between t[i-1] and t[i])
IsWordAt(t, i) == i >= 1 /\ i <= Len(t) /\ t[i] \in WordChars
WordBoundary(t, i) == IsWordAt(t, i - 1) # IsWordAt(t, i)

\* the position after the last \w character of t[a..b-1], 0 if it has none:
\* where [\w\.-]+\b ends after backtracking from b
RECURSIVE LastWordEnd(_, _, _)
LastWordEnd(t, a, b) ==
    IF b <= a THEN 0
    ELSE IF t[b - 1] \in WordChars THEN b
    ELSE LastWordEnd(t, a, b - 1)

\* \b[\w\.-]+@[\w\.-]+\b
MatchEmail(t, i) ==
    LET j == RunEnd(t, i, EmailChars)
    IN  IF WordBoundary(t, i) /\ j > i /\ j <= Len(t) /\ t[j] = "@"
        THEN LastWordEnd(t, j + 1, RunEnd(t, j + 1, EmailChars))
        ELSE 0

\* \d+(?:\.\d+)?
MatchNum(t, i) ==
    IF i <= Len(t) /\ t[i] \in Digits
    THEN LET j == RunEnd(t, i, Digits)
         IN  IF j + 1 <= Len(t) /\ t[j] = "." /\ t[j + 1] \in Digits
             THEN RunEnd(t, j + 1, Digits)
             ELSE j
    ELSE 0

URL == <<"U","R","L">>
EMAIL == <<"E","M","A","I","L">>
NUM == <<"N","U","M">>
Sentinels == {URL, EMAIL, NUM}
Padded(s) == <<" ">> \o s \o <<" ">>

\* re.sub(r"https?://\S+|www\.\S+", " URL ", text), scanning from i
RECURSIVE SubUrlFrom(_, _)
SubUrlFrom(t, i) ==
    IF i > Len(t) THEN <<>>
    ELSE LET e == MatchUrl(t, i)
         IN  IF e > 0 THEN Padded(URL) \o SubUrlFrom(t, e)
             ELSE <<t[i]>> \o SubUrlFrom(t, i + 1)

\* re.sub(r"\b[\w\.-]+@[\w\.-]+\b", " EMAIL ", text), scanning from i
RECURSIVE SubEmailFrom(_, _)
SubEmailFrom(t, i) ==
    IF i > Len(t) THEN <<>>
    ELSE LET e == MatchEmail(t, i)
         IN  IF e > 0 THEN Padded(EMAIL) \o SubEmailFrom(t, e)
             ELSE <<t[i]>> \o SubEmailFrom(t, i + 1)

\* re.sub(r"\d+(?:\.\d+)?", " NUM ", text), scanning from i
RECURSIVE SubNumFrom(_, _)
SubNumFrom(t, i) ==
    IF i > Len(t) THEN <<>>
    ELSE LET e == MatchNum(t, i)
         IN  IF e > 0 THEN Padded(NUM) \o SubNumFrom(t, e)
             ELSE <<t[i]>> \o SubNumFrom(t, i + 1)

SubUrl(t) == SubUrlFrom(t, 1)
SubEmail(t) == SubEmailFrom(t, 1)
SubNum(t) == SubNumFrom(t, 1)

\* the least number of letters of a token: the 2 of [a-zA-Z]{2,}
MinTokenLen == 2

\* TOKEN_RE.findall(text), scanning from i
RECURSIVE FindAllFrom(_, _)
FindAllFrom(t, i) ==
    IF i > Len(t) THEN <<>>
    ELSE IF t[i] \in Letters
    THEN LET j == RunEnd(t, i, Letters)
         IN  IF j - i >= MinTokenLen
             THEN <<SubSeq(t, i, j - 1)>> \o FindAllFrom(t, j)
             ELSE FindAllFrom(t, j)
    ELSE FindAllFrom(t, i + 1)

FindAll(t) == FindAllFrom(t, 1)

\* tokenize with the substitutions in another order (NUM before EMAIL)
TokenizeNumFirst(t) == FindAll(SubEmail(SubNum(SubUrl(Lower(t)))))

\* tokenize(text)
Tokenize(t) == FindAll(SubNum(SubEmail(SubUrl(Lower(t)))))

----------------------------------------------------------------------------
(***************************************************************************)
(* TokSpec: tokenize on every text of at most MaxChunks chunks, and on the *)
(* text of the documented example.                                         *)
(***************************************************************************)
MaxChunks == 4

Chunks == { HTTP, WWW, <<"a">>, <<"B">>, <<"1">>, <<".">>, <<"@">>, <<" ">> }

RECURSIVE Flatten(_)
Flatten(cs) == IF cs = <<>> THEN <<>> ELSE Head(cs) \o Flatten(Tail(cs))

BoundedTexts ==
    {Flatten(cs) : cs \in UNION {[1..n -> Chunks] : n \in 0..MaxChunks}}

\* "Contact me at a@b.com or visit http://x.com, call 123 now"
ExampleText ==
    <<"C","o","n","t","a","c","t"," ","m","e"," ","a","t"," ",
      "a","@","b",".","c","o","m"," ","o","r"," ",
      "v","i","s","i","t"," ","h","t","t","p",":","/","/","x",".","c","o","m",
      ","," ","c","a","l","l"," ","1","2","3"," ","n","o","w">>

Texts == BoundedTexts \cup {ExampleText}

TokInit ==
    /\ text \in Texts
    /\ tokens = <<>>
    /\ tpc = "call"
    /\ BowIdle /\ LoadIdle /\ CanvasIdle

CallTokenize ==
    /\ tpc = "call"
    /\ tokens' = Tokenize(text)
    /\ tpc' = "done"
    /\ UNCHANGED <<text, bowVars, loadVars, canvasVars>>

TokNext == CallTokenize

TokSpec == TokInit /\ [][TokNext]_vars

----------------------------------------------------------------------------
(***************************************************************************)
(* C8.  The words of a text are its maximal runs of non-blank characters.  *)
(* A word is a single URL, email address or number when the corresponding  *)
(* pattern of tokenize matches the whole (lower-cased) word, the patterns  *)
(* taken in tokenize's own precedence.                                     *)
(***************************************************************************)
RECURSIVE SplitFrom(_, _, _)
SplitFrom(t, i, cur) ==
    IF i > Len(t) THEN <<cur>>
    ELSE IF t[i] \in Whitespace THEN <<cur>> \o SplitFrom(t, i + 1, <<>>)
    ELSE SplitFrom(t, i + 1, Append(cur, t[i]))

WordsOf(t) == SplitFrom(t, 1, <<>>)

IsSingleUrl(w) == w # <<>> /\ MatchUrl(w, 1) = Len(w) + 1
IsSingleEmail(w) == w # <<>> /\ MatchEmail(w, 1) = Len(w) + 1
IsSingleNum(w) == w # <<>> /\ MatchNum(w, 1) = Len(w) + 1
ContainsUrl(w) == \E i \in 1..Len(w) : MatchUrl(w, i) > 0

KindOf(w) ==
    IF IsSingleUrl(w) THEN URL
    ELSE IF IsSingleEmail(w) THEN EMAIL
    ELSE IF IsSingleNum(w) THEN NUM
    ELSE IF \A i \in 1..Len(w) : w[i] \in Letters THEN <<"w","o","r","d">>
    ELSE <<"o","t","h","e","r">>

CountOf(s, x) == Cardinality({i \in 1..Len(s) : s[i] = x})

\* every word of the text is a URL, an email address, a number or letters
PlainText(t) ==
    LET ws == WordsOf(Lower(t))
    IN  \A i \in 1..Len(ws) : KindOf(ws[i]) # <<"o","t","h","e","r">>

\* no email address of the text contains a URL pattern (www. and more)
NoUrlInsideEmail(t) ==
    LET ws == WordsOf(Lower(t))
    IN  \A i \in 1..Len(ws) : KindOf(ws[i]) = EMAIL => ~ContainsUrl(ws[i])

SentinelCountsMatch(t, toks) ==
    LET ws == WordsOf(Lower(t))
        kinds == [i \in 1..Len(ws) |-> KindOf(ws[i])]
    IN  \A s \in Sentinels : CountOf(toks, s) = CountOf(kinds, s)

IsLowerRun(tok) ==
    /\ Len(tok) >= MinTokenLen
    /\ \A i \in 1..Len(tok) : tok[i] \in LowerLetters

ExampleTokens ==
    << <<"c","o","n","t","a","c","t">>, <<"m","e">>, <<"a","t">>, EMAIL,
       <<"o","r">>, <<"v","i","s","i","t">>, URL, <<"c","a","l","l">>, NUM,
       <<"n","o","w">> >>

\* C8 as stated: after tokenize, every single URL, email address and number
\* of the input has contributed its own sentinel exactly once.
C8_EachItemItsSentinelOnce ==
    (tpc = "done" /\ PlainText(text)) => SentinelCountsMatch(text, tokens)

\* C8 amended: every token is URL, EMAIL, NUM or a lower-case run of 2 or
\* more letters; the example text yields contact me at EMAIL or visit URL
\* call NUM now; an email address holding a digit yields no NUM; and every
\* single URL, number, and email address that contains no URL pattern
\* contributes its own sentinel exactly once.
C8_Tokenize ==
    tpc = "done" =>
        /\ \A i \in 1..Len(tokens) :
               tokens[i] \in Sentinels \/ IsLowerRun(tokens[i])
        /\ text = ExampleText => tokens = ExampleTokens
        /\ (IsSingleEmail(Lower(text)) /\ ~ContainsUrl(Lower(text)))
               => tokens = <<EMAIL>>
        /\ (PlainText(text) /\ NoUrlInsideEmail(text))
               => SentinelCountsMatch(text, tokens)

\* tokenize has returned for a text with a URL, an email address holding a
\* digit, or a one-letter fragment beside a number; or for the example
C8_Witness ==
    /\ tpc = "done"
    /\ \/ text = ExampleText
       \/ text = <<"a","1","@","B">> /\ tokens = <<EMAIL>>
       \/ text = WWW \o <<"a"," ","1">> /\ tokens = <<URL, NUM>>

----------------------------------------------------------------------------
(***************************************************************************)
(* build_vocab and vectorize_df.                                           *)
(* A dict is a sequence of <<key, value>> pairs in insertion order, the    *)
(* order in which Python iterates it.  A set of tokens is iterated in an   *)
(* arbitrary order (string hashing), so a loop over it takes any order.    *)
(***************************************************************************)
DefaultMinDf == 3
DefaultMaxVocab == 30000

\* set(tokenize(txt))
TokenSet(txt) == LET toks == Tokenize(txt) IN {toks[i] : i \in 1..Len(toks)}

\* the orders in which a for loop may visit the set S
IterationOrders(S) ==
    {p \in [1..Cardinality(S) -> S] : \A i, j \in 1..Cardinality(S) :
                                          p[i] = p[j] => i = j}

Keys(d) == {d[i][1] : i \in 1..Len(d)}

\* d.get(k, default)
Get(d, k, default) ==
    IF k \in Keys(d)
    THEN d[CHOOSE i \in 1..Len(d) : d[i][1] = k][2]
    ELSE default

\* d[k] = v
Put(d, k, v) ==
    IF k \in Keys(d)
    THEN [i \in 1..Len(d) |-> IF d[i][1] = k THEN <<k, v>> ELSE d[i]]
    ELSE Append(d, <<k, v>>)

\* for tok in <order>: df[tok] = df.get(tok, 0) + 1
RECURSIVE CountTokens(_, _)
CountTokens(d, order) ==
    IF order = <<>> THEN d
    ELSE CountTokens(Put(d, Head(order), Get(d, Head(order), 0) + 1),
                     Tail(order))

\* the loop of build_vocab counting raw occurrences (no set())
CountDocRaw(d, txt) == {CountTokens(d, Tokenize(txt))}

\* one round of build_vocab's outer loop: the dicts it may leave
CountDoc(d, txt) ==
    {CountTokens(d, order) : order \in IterationOrders(TokenSet(txt))}

\* the df dicts build_vocab's loops may produce for the corpus ds
RECURSIVE DfDicts(_)
DfDicts(ds) ==
    IF ds = <<>> THEN {<<>>}
    ELSE UNION {CountDoc(d, ds[Len(ds)]) :
                    d \in DfDicts(SubSeq(ds, 1, Len(ds) - 1))}

\* the filter of the list comprehension: c >= min_df
Qualifies(c, m) == c >= m

\* items = [(tok, c) for tok, c in df.items() if c >= min_df]
Items(d, m) == SelectSeq(d, LAMBDA it : Qualifies(it[2], m))

\* the place of x in the sorted list s: after every item whose count is
\* not smaller (the sort is stable)
RECURSIVE InsertDesc(_, _)
InsertDesc(s, x) ==
    IF s = <<>> THEN <<x>>
    ELSE IF Head(s)[2] >= x[2] THEN <<Head(s)>> \o InsertDesc(Tail(s), x)
    ELSE <<x>> \o s

RECURSIVE SortFrom(_, _)
SortFrom(sorted, rest) ==
    IF rest = <<>> THEN sorted
    ELSE SortFrom(InsertDesc(sorted, Head(rest)), Tail(rest))

Unsorted(items) == items

\* items.sort(key=lambda x: x[1], reverse=True)
SortDesc(items) == SortFrom(<<>>, items)

Min(a, b) == IF a <= b THEN a ELSE b
Max(a, b) == IF a >= b THEN a ELSE b

SliceNone(s, n) == s

\* s[:n], for an integer n of either sign
SlicePrefix(s, n) ==
    IF n >= 0 THEN SubSeq(s, 1, Min(n, Len(s)))
    ELSE SubSeq(s, 1, Max(Len(s) + n, 0))

\* {tok: i for i, (tok, _) in enumerate(items)}
Enumerate(items) ==
    [tok \in Keys(items) |->
        (CHOOSE i \in 1..Len(items) :
            /\ items[i][1] = tok
            /\ \A k \in (i + 1)..Len(items) : items[k][1] # tok) - 1]

\* what build_vocab returns from the df dict d
VocabOf(d, m, mv) == Enumerate(SlicePrefix(SortDesc(Items(d, m)), mv))

\* vocab.get(tok) is not None
InVocab(v, tok) == tok \in DOMAIN v

\* X[i, j] += 1 for every occurrence: counts, not presence
RowCounts(v, txt) ==
    LET toks == Tokenize(txt)
    IN  [j \in 0..(Cardinality(DOMAIN v) - 1) |->
            Cardinality({k \in 1..Len(toks) :
                             InVocab(v, toks[k]) /\ v[toks[k]] = j})]

\* the row of X for one document: zeros, then X[i, j] = 1 for every tok of
\* set(tokenize(txt)) with j = vocab.get(tok) not None
RECURSIVE SetCells(_, _, _)
SetCells(row, v, S) ==
    IF S = {} THEN row
    ELSE LET tok == CHOOSE x \in S : TRUE
         IN  SetCells(IF InVocab(v, tok)
                      THEN [row EXCEPT ![v[tok]] = 1]
                      ELSE row,
                      v, S \ {tok})

Row(v, txt) ==
    SetCells([j \in 0..(Cardinality(DOMAIN v) - 1) |-> 0], v, TokenSet(txt))

\* cols = [None] * V; for tok, j in vocab.items(): cols[j] = tok
Columns(v) ==
    [j \in 0..(Cardinality(DOMAIN v) - 1) |->
        IF \E tok \in DOMAIN v : v[tok] = j
        THEN CHOOSE tok \in DOMAIN v : v[tok] = j
        ELSE None]

\* pd.Index(range(len(docs)))
RangeIndex(n) == [i \in 1..n |-> i - 1]

LengthUnchecked(ix, ds) == FALSE

\* the test that raises ValueError: len(index) != len(docs)
LengthMismatch(ix, ds) == Len(ix.labels) # Len(ds)

\* vectorize_df(docs, vocab, index)
VectorizeDf(ds, v, ix) ==
    IF ix.given /\ LengthMismatch(ix, ds)
    THEN [kind |-> "ValueError"]
    ELSE [kind |-> "ok",
          X |-> [i \in 1..Len(ds) |-> Row(v, ds[i])],
          index |-> IF ix.given THEN ix.labels ELSE RangeIndex(Len(ds)),
          columns |-> Columns(v)]

----------------------------------------------------------------------------
(***************************************************************************)
(* Spec: build_vocab on a corpus of at most MaxDocs documents, then        *)
(* vectorize_df with the vocabulary it returned.                           *)
(***************************************************************************)
MaxDocs == 3

Str(w1, w2) == w1 \o <<" ">> \o w2

\* "", "ab ab", "Ab cd", "cd 1"
DocTexts ==
    { <<>>,
      Str(<<"a","b">>, <<"a","b">>),
      Str(<<"A","b">>, <<"c","d">>),
      Str(<<"c","d">>, <<"1">>) }

Corpora(n) == UNION {[1..k -> DocTexts] : k \in 0..n}

MinDfs == {1, 2, DefaultMinDf}
MaxVocabs == {-2, -1, 0, 1, 2, DefaultMaxVocab}

\* row labels handed to vectorize_df: none, or n labels
Labels(n) == [i \in 1..n |-> 100 + i]
Indexes(n) ==
    {NoIndex} \cup
    {GivenIndex(Labels(k)) : k \in {n, n + 1} \cup ({n - 1} \cap Nat)}

\* the document lists vectorize_df is tried on besides the corpus itself
OtherDocs ==
    { << <<>> >>,
      << Str(<<"a","b">>, <<"a","b">>), Str(<<"x","y">>, <<"c","d">>) >> }

\* tokenize(t) for the texts of this specification, computed once
Tokenized ==
    [t \in DocTexts \cup UNION {{ds[i] : i \in 1..Len(ds)} : ds \in OtherDocs}
        |-> Tokenize(t)]

Init ==
    /\ docs \in Corpora(MaxDocs)
    /\ min_df = 0 /\ max_vocab = 0 /\ nitems = 0
    /\ vocab = <<>> /\ vdocs = <<>> /\ index = NoIndex /\ bow = None
    /\ bpc = "start"
    /\ TokIdle /\ LoadIdle /\ CanvasIdle

BuildVocab ==
    /\ bpc = "start"
    /\ \E m \in MinDfs, mv \in MaxVocabs, d \in DfDicts(docs) :
        /\ min_df' = m
        /\ max_vocab' = mv
        /\ nitems' = Len(Items(d, m))
        /\ vocab' = VocabOf(d, m, mv)
    /\ bpc' = "vocab"
    /\ UNCHANGED <<docs, vdocs, index, bow, tokVars, loadVars, canvasVars>>

CallVectorizeDf ==
    /\ bpc = "vocab"
    /\ \E ds \in {docs} \cup OtherDocs :
        \E ix \in Indexes(Len(ds)) :
            /\ vdocs' = ds
            /\ index' = ix
            /\ bow' = VectorizeDf(ds, vocab, ix)
    /\ bpc' = "done"
    /\ UNCHANGED <<docs, min_df, max_vocab, nitems, vocab,
                   tokVars, loadVars, canvasVars>>

Next == BuildVocab \/ CallVectorizeDf

Spec == Init /\ [][Next]_vars

----------------------------------------------------------------------------
(***************************************************************************)
(* Claims about build_vocab and vectorize_df (checked under Spec).         *)
(***************************************************************************)
\* document frequency: the number of documents of the corpus whose token
\* set contains tok
DocFreq(tok) ==
    Cardinality({i \in 1..Len(docs) :
                    \E k \in 1..Len(Tokenized[docs[i]]) :
                        Tokenized[docs[i]][k] = tok})

CorpusTokens ==
    UNION {{Tokenized[docs[i]][k] : k \in 1..Len(Tokenized[docs[i]])} :
              i \in 1..Len(docs)}

\* build_vocab has just returned
VocabReturned == bpc = "vocab"

AB == <<"a","b">>
CD == <<"c","d">>
XY == <<"x","y">>

\* C1: vectorize_df returns one row per document and |vocabulary| columns,
\* and cell (i, j) is 1 if the token of column j occurs in tokenize(docs[i])
\* and 0 otherwise (never a count; tokens outside the vocabulary change
\* nothing; an empty document gives a row of zeros).
C1_PresenceMatrix ==
    (bpc = "done" /\ bow.kind = "ok") =>
        /\ DOMAIN bow.X = 1..Len(vdocs)
        /\ \A i \in 1..Len(vdocs) :
            /\ DOMAIN bow.X[i] = 0..(Cardinality(DOMAIN vocab) - 1)
            /\ \A j \in DOMAIN bow.X[i] :
                bow.X[i][j] =
                    IF \E k \in 1..Len(Tokenized[vdocs[i]]) :
                           /\ Tokenized[vdocs[i]][k] \in DOMAIN vocab
                           /\ vocab[Tokenized[vdocs[i]][k]] = j
                    THEN 1 ELSE 0
            /\ vdocs[i] = <<>> => \A j \in DOMAIN bow.X[i] : bow.X[i][j] = 0

\* a document holding "ab" twice and the out-of-vocabulary "xy" has been
\* vectorized with "ab" in the vocabulary
C1_Witness ==
    /\ bpc = "done" /\ bow.kind = "ok"
    /\ Len(vdocs) = 2
    /\ Tokenized[vdocs[1]] = <<AB, AB>>
    /\ XY \in {Tokenized[vdocs[2]][k] : k \in 1..Len(Tokenized[vdocs[2]])}
    /\ AB \in DOMAIN vocab /\ XY \notin DOMAIN vocab
    /\ bow.X[1][vocab[AB]] = 1

\* C2: every token of the vocabulary has document frequency >= min_df.
C2_MinDocFreq ==
    VocabReturned => \A tok \in DOMAIN vocab : DocFreq(tok) >= min_df

\* "ab" occurs twice in its only document and is left out at min_df = 2,
\* while another token is kept
C2_Witness ==
    /\ VocabReturned /\ min_df = 2
    /\ DocFreq(AB) = 1 /\ AB \notin DOMAIN vocab
    /\ \E i \in 1..Len(docs) : Tokenized[docs[i]] = <<AB, AB>>
    /\ DOMAIN vocab # {}

\* C3 as stated: the vocabulary has at most max_vocab tokens, whatever
\* max_vocab is.
C3_SizeAtMostMaxVocab ==
    VocabReturned => Cardinality(DOMAIN vocab) <= max_vocab

\* C3 amended: for max_vocab >= 0 the vocabulary has at most max_vocab
\* tokens; for max_vocab < 0 it holds all but the last -max_vocab of the
\* qualifying tokens.
C3_SizeBound ==
    VocabReturned =>
        /\ max_vocab >= 0 => Cardinality(DOMAIN vocab) <= max_vocab
        /\ max_vocab < 0 =>
               Cardinality(DOMAIN vocab) = Max(nitems + max_vocab, 0)

\* more tokens qualify than max_vocab allows, and the cut was made
C3_Witness ==
    /\ VocabReturned /\ max_vocab >= 1
    /\ nitems > max_vocab
    /\ Cardinality(DOMAIN vocab) = max_vocab

\* C7: the vocabulary maps its k tokens one-to-one onto 0..k-1 in
\* descending document-frequency order, and no qualifying token left out
\* has a higher document frequency than a token kept.
C7_ContiguousDescending ==
    VocabReturned =>
        /\ {vocab[tok] : tok \in DOMAIN vocab}
               = 0..(Cardinality(DOMAIN vocab) - 1)
        /\ \A s, t \in DOMAIN vocab :
               /\ vocab[s] = vocab[t] => s = t
               /\ vocab[s] < vocab[t] => DocFreq(s) >= DocFreq(t)
        /\ \A s \in CorpusTokens \ DOMAIN vocab :
               DocFreq(s) >= min_df =>
                   \A t \in DOMAIN vocab : DocFreq(s) <= DocFreq(t)

\* two tokens of different document frequency are kept in that order and a
\* third qualifying token is cut off
C7_Witness ==
    /\ VocabReturned
    /\ \E s, t \in DOMAIN vocab :
           vocab[s] < vocab[t] /\ DocFreq(s) > DocFreq(t)
    /\ \E s \in CorpusTokens \ DOMAIN vocab : DocFreq(s) >= min_df

\* C4: with row labels of another length than the documents vectorize_df
\* raises ValueError and returns no matrix; otherwise it returns the matrix
\* with the given labels, or with 0..n-1 when none are given.
C4_IndexLength ==
    bpc = "done" =>
        IF index.given /\ Len(index.labels) # Len(vdocs)
        THEN bow = [kind |-> "ValueError"]
        ELSE /\ bow.kind = "ok"
             /\ bow.index = IF index.given THEN index.labels
                            ELSE [i \in 1..Len(vdocs) |-> i - 1]

\* vectorize_df was called with one label too many
C4_Witness ==
    /\ bpc = "done" /\ index.given
    /\ Len(index.labels) = Len(vdocs) + 1 /\ Len(vdocs) >= 1
    /\ bow.kind = "ValueError"

----------------------------------------------------------------------------
(***************************************************************************)
(* The file system, download, extract and load_sms_from_url.               *)
(* A path is the sequence of its components below "/".  An archive is a    *)
(* record [suffix, entries]: the suffix of its file name and the names of  *)
(* its members in order, each member name a sequence of components.        *)
(***************************************************************************)
\* the characters of a component, for os.path.commonprefix
NameChars(n) ==
    CASE n = "home" -> <<"h","o","m","e">>
      [] n = "data" -> <<"d","a","t","a">>
      [] n = "sms" -> <<"s","m","s">>
      [] n = "smsspam.zip" -> <<"s","m","s","s","p","a","m",".","z","i","p">>
      [] n = "extracted" -> <<"e","x","t","r","a","c","t","e","d">>
      [] n = "extracted_evil" -> <<"e","x","t","r","a","c","t","e","d","_","e","v","i","l">>
      [] n = "etc" -> <<"e","t","c">>
      [] n = "passwel" -> <<"p","a","s","s","w","e","l">>
      [] n = "x" -> <<"x">>
      [] n = "readme" -> <<"r","e","a","d","m","e">>
      [] n = "SMSSpamCollection" -> <<"S","M","S","S","p","a","m","C","o","l","l","e","c","t","i","o","n">>

\* the path as the string os.path.abspath returns
RECURSIVE PathString(_)
PathString(p) ==
    IF p = <<>> THEN <<>>
    ELSE <<"/">> \o NameChars(Head(p)) \o PathString(Tail(p))

\* os.path.normpath on the components of an absolute path
RECURSIVE NormFrom(_, _)
NormFrom(acc, rest) ==
    IF rest = <<>> THEN acc
    ELSE IF Head(rest) = ".."
    THEN NormFrom(SubSeq(acc, 1, Max(Len(acc) - 1, 0)), Tail(rest))
    ELSE IF Head(rest) \in {".", ""} THEN NormFrom(acc, Tail(rest))
    ELSE NormFrom(Append(acc, Head(rest)), Tail(rest))

\* os.path.abspath
AbsPath(p) == NormFrom(<<>>, p)

\* os.path.join(path, name) for a relative name
Join(path, name) == path \o name

\* os.path.commonprefix([a, b]): character by character
RECURSIVE CommonPrefix(_, _)
CommonPrefix(a, b) ==
    IF a = <<>> \/ b = <<>> \/ Head(a) # Head(b) THEN <<>>
    ELSE <<Head(a)>> \o CommonPrefix(Tail(a), Tail(b))

\* whether p is dest or lies below it
IsBelow(dest, p) ==
    Len(p) >= Len(dest) /\ SubSeq(p, 1, Len(dest)) = dest

\* _is_within_directory(directory, target)
IsWithinDirectory(directory, target) ==
    LET abs_directory == PathString(AbsPath(directory))
        abs_target == PathString(AbsPath(target))
    IN  CommonPrefix(abs_directory, abs_target) = abs_directory

\* the directories above a path
Parents(p) == {SubSeq(p, 1, k) : k \in 1..(Len(p) - 1)}

\* an extraction in progress: the files, the directories, the paths
\* written so far, and the error raised (None if none)
Extraction(fs, ds) == [files |-> fs, dirs |-> ds, written |-> {}, error |-> None]

WriteMember(e, p) ==
    [e EXCEPT !.files = [q \in DOMAIN e.files \cup {p} |->
                            IF q = p THEN "member" ELSE e.files[q]],
              !.dirs = e.dirs \cup Parents(p),
              !.written = e.written \cup {p}]

\* ZipFile._extract_member's target: the name without its "", "." and ".."
\* components, below dest
ZipTarget(dest, name) ==
    dest \o SelectSeq(name, LAMBDA x : x \notin {"", ".", ".."})

\* z.extractall(dest)
RECURSIVE ZipExtractAll(_, _, _)
ZipExtractAll(e, dest, members) ==
    IF members = <<>> THEN e
    ELSE ZipExtractAll(WriteMember(e, ZipTarget(dest, Head(members))),
                       dest, Tail(members))

\* tar.extractall(path) under the build's default filter: "fully_trusted"
\* writes every member where its name leads; "data" raises at the first
\* member that leads out of path
RECURSIVE TarExtractAll(_, _, _, _)
TarExtractAll(e, path, members, filter) ==
    IF members = <<>> THEN e
    ELSE LET target == AbsPath(Join(path, Head(members)))
         IN  IF filter = "data" /\ ~IsBelow(path, target)
             THEN [e EXCEPT !.error = "OutsideDestinationError"]
             ELSE TarExtractAll(WriteMember(e, target), path,
                                Tail(members), filter)

\* safe_extract_tar(tar, path)
SafeExtractTar(e, path, members, filter) ==
    IF \E i \in 1..Len(members) :
           ~IsWithinDirectory(path, Join(path, members[i]))
    THEN [e EXCEPT !.error = "Exception: Blocked path traversal in tar file"]
    ELSE TarExtractAll(e, path, members, filter)

\* extract(archive, dest), archive being the content of the archive file
ExtractArchive(fs, ds, archive, dest, filter) ==
    LET e == Extraction(fs, ds \cup Parents(dest) \cup {dest})
    IN  IF archive.suffix = ".zip"
        THEN ZipExtractAll(e, dest, archive.entries)
        ELSE SafeExtractTar(e, dest, archive.entries, filter)

CachedNever(fs, dest) == FALSE

\* dest.exists() in download
Cached(fs, dest) == dest \in DOMAIN fs

\* next(ex.rglob("SMSSpamCollection"), None) is not None
DataFileFound(fs, ex) ==
    \E q \in DOMAIN fs :
        IsBelow(ex, q) /\ Len(q) > Len(ex) /\ q[Len(q)] = "SMSSpamCollection"

----------------------------------------------------------------------------
(***************************************************************************)
(* LoadSpec: at most MaxCalls calls of download, extract and               *)
(* load_sms_from_url, on archives of at most MaxEntries members.           *)
(***************************************************************************)
MaxCalls == 2
MaxEntries == 2

Cwd == <<"home">>
SmsRoot == Cwd \o <<"data", "sms">>                \* root = "data/sms"
ArcPath == SmsRoot \o <<"smsspam.zip">>            \* root / "smsspam.zip"
ExDir == SmsRoot \o <<"extracted">>                \* root / "extracted"

\* SMSSpamCollection, ../../etc/passwel, ../extracted_evil/x
EntryNames ==
    { <<"SMSSpamCollection">>,
      <<"..", "..", "etc", "passwel">>, <<"..", "extracted_evil", "x">> }

Archives(suffixes) ==
    {[suffix |-> sfx, entries |-> es] :
        sfx \in suffixes,
        es \in UNION {[1..n -> EntryNames] : n \in 0..MaxEntries}}

\* what the URL may serve
RemoteArchives ==
    {[suffix |-> ".zip", entries |-> es] :
        es \in { << <<"SMSSpamCollection">>, <<"readme">> >>,
                 << <<"readme">> >>,
                 << <<"..", "..", "etc", "passwel">> >> }}

LoadInit ==
    /\ files = <<>>
    /\ dirs = {Cwd}
    /\ tarFilter \in {"fully_trusted", "data"}
    /\ fetches = 0
    /\ ncalls = 0
    /\ last = [op |-> "none"]
    /\ TokIdle /\ BowIdle /\ CanvasIdle

\* the copy of the response to dest: with ... open(dest, "wb") ...
Fetched(fs, dest, content) ==
    [q \in DOMAIN fs \cup {dest} |-> IF q = dest THEN content ELSE fs[q]]

\* download(url, dest): returns at once if dest exists; else urlopen either
\* raises (nothing is written) or the response is copied to dest
Download ==
    /\ ncalls < MaxCalls
    /\ ncalls' = ncalls + 1
    /\ dirs' = dirs \cup Parents(ArcPath)
    /\ \/ /\ Cached(files, ArcPath)
          /\ UNCHANGED <<files, fetches>>
          /\ last' = [op |-> "download", outcome |-> "cached"]
       \/ /\ ~Cached(files, ArcPath)
          /\ UNCHANGED <<files, fetches>>
          /\ last' = [op |-> "download", outcome |-> "URLError"]
       \/ /\ ~Cached(files, ArcPath)
          /\ \E content \in RemoteArchives :
                files' = Fetched(files, ArcPath, content)
          /\ fetches' = fetches + 1
          /\ last' = [op |-> "download", outcome |-> "fetched"]
    /\ UNCHANGED <<tarFilter, tokVars, bowVars, canvasVars>>

\* whether a member of the archive leads out of dest
LeadsOutside(archive, dest) ==
    \E i \in 1..Len(archive.entries) :
        ~IsBelow(dest, AbsPath(Join(dest, archive.entries[i])))

\* extract(archive, dest) on an archive file supplied by the caller
Extract ==
    /\ ncalls < MaxCalls
    /\ ncalls' = ncalls + 1
    /\ \E archive \in Archives({".zip", ".gz"}) :
        LET e == ExtractArchive(files, dirs, archive, ExDir, tarFilter)
        IN  /\ files' = e.files
            /\ dirs' = e.dirs
            /\ last' = [op |-> "extract", suffix |-> archive.suffix,
                        outside |-> LeadsOutside(archive, ExDir),
                        written |-> e.written, error |-> e.error]
    /\ UNCHANGED <<tarFilter, fetches, tokVars, bowVars, canvasVars>>

\* load_sms_from_url(): download, extract unless extracted/ exists, look
\* the data file up, open and parse it
LoadSmsFromUrl ==
    /\ ncalls < MaxCalls
    /\ ncalls' = ncalls + 1
    /\ \/ /\ ~Cached(files, ArcPath)
          /\ dirs' = dirs \cup Parents(ArcPath)
          /\ UNCHANGED <<files, fetches>>
          /\ last' = [op |-> "load", lookedUp |-> FALSE, extracted |-> FALSE,
                      found |-> FALSE, error |-> "URLError"]
       \/ \E fs \in IF Cached(files, ArcPath) THEN {files}
                    ELSE {Fetched(files, ArcPath, c) : c \in RemoteArchives} :
            LET skip == ExDir \in dirs
                e == IF skip THEN Extraction(fs, dirs \cup Parents(ArcPath))
                     ELSE ExtractArchive(fs, dirs \cup Parents(ArcPath),
                                         fs[ArcPath], ExDir, tarFilter)
                found == DataFileFound(e.files, ExDir)
            IN  /\ files' = e.files
                /\ dirs' = e.dirs
                /\ fetches' = IF Cached(files, ArcPath) THEN fetches
                              ELSE fetches + 1
                /\ last' = [op |-> "load", lookedUp |-> TRUE,
                            extracted |-> ~skip, found |-> found,
                            error |-> IF found THEN None ELSE "TypeError"]
    /\ UNCHANGED <<tarFilter, tokVars, bowVars, canvasVars>>

LoadNext == Download \/ Extract \/ LoadSmsFromUrl

LoadSpec == LoadInit /\ [][LoadNext]_vars

----------------------------------------------------------------------------
(***************************************************************************)
(* Claims about the loader (checked under LoadSpec).                       *)
(***************************************************************************)
\* C5: extract fails with a security error before writing anything whenever
\* a member of the archive, zip or tar, leads out of dest; and no call of
\* extract writes a file outside dest.
C5_TraversalBlocked ==
    last.op = "extract" =>
        /\ last.outside => (last.error # None /\ last.written = {})
        /\ \A q \in last.written : IsBelow(ExDir, q)

\* C6: when load_sms_from_url finds no SMSSpamCollection in the extracted
\* tree, it fails with a not-found error.
C6_NotFoundError ==
    (last.op = "load" /\ last.lookedUp /\ ~last.found) =>
        last.error = "FileNotFoundError"

\* C9: a download or load_sms_from_url call that finds dest in place
\* fetches nothing and leaves the file as it is, so that at most one fetch is
\* ever made for dest; and load_sms_from_url extracts exactly when the
\* extracted directory does not exist, leaving the files alone otherwise.
C9_Idempotent ==
    [][ /\ (ArcPath \in DOMAIN files /\ last'.op \in {"download", "load"}) =>
               /\ fetches' = fetches
               /\ ArcPath \in DOMAIN files'
               /\ files'[ArcPath] = files[ArcPath]
        /\ fetches' <= 1
        /\ (last'.op = "load" /\ last'.lookedUp) =>
               /\ last'.extracted <=> ExDir \notin dirs
               /\ (ExDir \in dirs /\ ArcPath \in DOMAIN files) =>
                      files' = files
      ]_vars

\* a second download found the archive in place after the one fetch
C9_Witness ==
    /\ last.op = "download" /\ last.outcome = "cached"
    /\ fetches = 1 /\ ncalls = 2
    /\ ArcPath \in DOMAIN files

----------------------------------------------------------------------------
(***************************************************************************)
(* to_canvas.py.  A column name is the sequence of its parts: a base name, *)
(* then possibly one of the " - ..." suffixes of the gradebook export.     *)
(* A cell is a number or a string.  A table is [columns, rows], each row a *)
(* function from the table's columns to cells.                             *)
(***************************************************************************)
Num(k) == [num |-> TRUE, n |-> k, s |-> ""]
Str2(x) == [num |-> FALSE, n |-> 0, s |-> x]
Blank == Str2("")

MaxPointsSuffix == " - Max Points"
DashSuffixes == {" - Max Points", " - Submission Time", " - Lateness (H:M:S)"}

Col(name) == <<name>>

ALWAYS_IGNORE ==
    {Col("First Name"), Col("Last Name"), Col("SID"), Col("Email"),
     Col("Sections"), Col("Total Lateness (H:M:S)")}

\* c.endswith(" - Max Points")
EndsWithMaxPoints(c) == c # <<>> /\ c[Len(c)] = MaxPointsSuffix

\* str.strip() on a name: blank parts at either end go
RECURSIVE Strip(_)
Strip(c) ==
    IF c = <<>> THEN c
    ELSE IF Head(c) \in {"", " "} THEN Strip(Tail(c))
    ELSE IF c[Len(c)] \in {"", " "} THEN Strip(SubSeq(c, 1, Len(c) - 1))
    ELSE c

\* c.replace(" - Max Points", "").strip()
BaseOf(c) == Strip(SelectSeq(c, LAMBDA x : x # MaxPointsSuffix))

\* " - " in c
HasDash(c) == \E i \in 1..Len(c) : c[i] \in DashSuffixes

\* the first loop of guess_columns: max_for as a dict, later columns
\* overwriting earlier ones of the same base
RECURSIVE MaxFor(_, _)
MaxFor(d, cols) ==
    IF cols = <<>> THEN d
    ELSE MaxFor(IF EndsWithMaxPoints(Head(cols))
                THEN Put(d, BaseOf(Head(cols)), Head(cols))
                ELSE d,
                Tail(cols))

\* the second loop's test: not ignored and without " - "
IsScoreColumn(c) == c \notin ALWAYS_IGNORE /\ ~HasDash(c)

\* score_columns, in the order of df.columns
ScoreColumns(cols) == SelectSeq(cols, IsScoreColumn)

RosterColumns ==
    <<Col("Student"), Col("ID"), Col("SIS User ID"), Col("SIS Login ID"),
      Col("Section")>>

\* row.get(name, "")
RowGet(row, c) == IF c \in DOMAIN row THEN row[c] ELSE Blank

\* f"{str(last).strip()}, {str(first).strip()}".strip(", ")
RECURSIVE StripCommaSpace(_)
StripCommaSpace(parts) ==
    IF parts = <<>> THEN parts
    ELSE IF Head(parts) \in {"", ", "} THEN StripCommaSpace(Tail(parts))
    ELSE IF parts[Len(parts)] \in {"", ", "}
    THEN StripCommaSpace(SubSeq(parts, 1, Len(parts) - 1))
    ELSE parts

StudentName(row) ==
    StripCommaSpace(<<RowGet(row, Col("Last Name")).s, ", ",
                      RowGet(row, Col("First Name")).s>>)

\* the try block copying one score: blank stays blank, a number becomes a
\* float, anything float() rejects is kept as it is
CopyScore(val) ==
    IF ~val.num /\ val.s = "" THEN Blank
    ELSE val

\* one student row of the output
StudentRow(row, scoreCols) ==
    [c \in {RosterColumns[i] : i \in 1..Len(RosterColumns)}
            \cup {scoreCols[i] : i \in 1..Len(scoreCols)} |->
        IF c = Col("Student") THEN StudentName(row)
        ELSE IF c = Col("ID") THEN Blank
        ELSE IF c = Col("SIS User ID") THEN RowGet(row, Col("SID"))
        ELSE IF c = Col("SIS Login ID") THEN RowGet(row, Col("Email"))
        ELSE IF c = Col("Section") THEN RowGet(row, Col("Sections"))
        ELSE CopyScore(RowGet(row, c))]

\* pd.to_numeric(df[max_col], errors="coerce").dropna(): the numeric cells
\* of the column, in row order
NumericCells(t, c) ==
    SelectSeq([k \in 1..Len(t.rows) |-> t.rows[k][c]], LAMBDA v : v.num)

LastNumericOrBlank(t, c) ==
    LET vals == NumericCells(t, c)
    IN  IF Len(vals) > 0 THEN vals[Len(vals)] ELSE Blank

\* max_val.iloc[0] if len(max_val) > 0 else ""
FirstNumericOrBlank(t, c) ==
    LET vals == NumericCells(t, c)
    IN  IF Len(vals) > 0 THEN vals[1] ELSE Blank

\* the "Points Possible" row
PointsPossibleRow(t, scoreCols, maxFor) ==
    [c \in {RosterColumns[i] : i \in 1..Len(RosterColumns)}
            \cup {scoreCols[i] : i \in 1..Len(scoreCols)} |->
        IF c = Col("Student") THEN <<"Points Possible">>
        ELSE IF c \in {scoreCols[i] : i \in 1..Len(scoreCols)}
                /\ c \in Keys(maxFor)
        THEN FirstNumericOrBlank(t, Get(maxFor, c, <<>>))
        ELSE Blank]

\* build_canvas_dataframe(df)
BuildCanvasDataframe(t) ==
    LET scoreCols == ScoreColumns(t.columns)
        maxFor == MaxFor(<<>>, t.columns)
    IN  [columns |-> RosterColumns \o scoreCols,
         rows |-> <<PointsPossibleRow(t, scoreCols, maxFor)>>
                  \o [k \in 1..Len(t.rows) |->
                         StudentRow(t.rows[k], scoreCols)]]

----------------------------------------------------------------------------
(***************************************************************************)
(* CanvasSpec: build_canvas_dataframe on gradebook exports of at most      *)
(* MaxRows students: the roster columns, then any of the columns of two    *)
(* assignments, then the total lateness.                                   *)
(***************************************************************************)
MaxRows == 2

Quiz == Col("Quiz 1")
QuizMax == <<"Quiz 1", " - Max Points">>
QuizLate == <<"Quiz 1", " - Lateness (H:M:S)">>
Extra == Col("Extra Credit")
ExtraMax == <<"Extra Credit", " - Max Points">>

AssignmentPool == <<Quiz, QuizMax, QuizLate, Extra, ExtraMax>>

Reverse(q) == [i \in 1..Len(q) |-> q[Len(q) + 1 - i]]

\* the sub-sequence of q at the positions in S
RECURSIVE Pick(_, _)
Pick(q, S) ==
    IF q = <<>> THEN <<>>
    ELSE (IF Len(q) \in S THEN Pick(SubSeq(q, 1, Len(q) - 1), S) \o <<q[Len(q)]>>
          ELSE Pick(SubSeq(q, 1, Len(q) - 1), S))

InputRoster ==
    <<Col("First Name"), Col("Last Name"), Col("SID"), Col("Email"),
      Col("Sections")>>

ColumnLists ==
    {InputRoster \o Pick(q, S) \o <<Col("Total Lateness (H:M:S)")>> :
        q \in {AssignmentPool, Reverse(AssignmentPool)},
        S \in SUBSET (1..Len(AssignmentPool))}

\* the cells a column may hold in row k
CellValues(c, k) ==
    IF c = Col("First Name") THEN {Str2(<<"", "Al", "Bo", "Cy">>[k])}
    ELSE IF c = Col("Last Name") THEN {Str2(<<"Ng", "Roe", "", "Poe">>[k])}
    ELSE IF c = Col("SID") THEN {Num(k)}
    ELSE IF c = Col("Email") THEN {Str2(<<"n@x", "r@x", "b@x", "p@x">>[k])}
    ELSE IF c = Col("Sections") THEN {Str2("A")}
    ELSE IF c = Quiz THEN {Num(7), Str2("EX")}
    ELSE IF c = QuizMax THEN {Blank, Num(10), Num(20)}
    ELSE IF c = Extra THEN {Blank}
    ELSE IF c = ExtraMax THEN {Blank, Num(5)}
    ELSE {Str2("00:00:00")}

\* the rows a table of these columns may hold at position k
RECURSIVE RowsFor(_, _)
RowsFor(cols, k) ==
    IF cols = <<>> THEN {<<>>}
    ELSE {(Head(cols) :> v) @@ r :
             v \in CellValues(Head(cols), k), r \in RowsFor(Tail(cols), k)}

RECURSIVE RowLists(_, _)
RowLists(cols, n) ==
    IF n = 0 THEN {<<>>}
    ELSE {Append(rs, r) : rs \in RowLists(cols, n - 1), r \in RowsFor(cols, n)}

Tables ==
    UNION {{[columns |-> cols, rows |-> rs] : rs \in RowLists(cols, n)} :
           cols \in ColumnLists, n \in 0..MaxRows}

CanvasInit ==
    /\ df \in Tables
    /\ out_df = None
    /\ cpc = "call"
    /\ TokIdle /\ BowIdle /\ LoadIdle

CallBuildCanvasDataframe ==
    /\ cpc = "call"
    /\ out_df' = BuildCanvasDataframe(df)
    /\ cpc' = "done"
    /\ UNCHANGED <<df, tokVars, bowVars, loadVars>>

CanvasNext == CallBuildCanvasDataframe

CanvasSpec == CanvasInit /\ [][CanvasNext]_vars

----------------------------------------------------------------------------
(***************************************************************************)
(* C10 (checked under CanvasSpec).                                         *)
(***************************************************************************)
\* the input columns that are assignments: not in ALWAYS_IGNORE and a bare
\* base name, in input order
AssignmentColumns ==
    SelectSeq(df.columns,
              LAMBDA c : c \notin ALWAYS_IGNORE /\ Len(c) = 1)

MaxColumnOf(a) == <<a[1], " - Max Points">>

HasMaxColumn(a) == \E i \in 1..Len(df.columns) : df.columns[i] = MaxColumnOf(a)

\* the rows of the input whose Max Points cell for a is a number
NumericRows(a) == {k \in 1..Len(df.rows) : df.rows[k][MaxColumnOf(a)].num}

HasMaxPoints(a) == HasMaxColumn(a) /\ NumericRows(a) # {}

FirstMaxPoints(a) ==
    df.rows[CHOOSE k \in NumericRows(a) : \A m \in NumericRows(a) : k <= m]
        [MaxColumnOf(a)]

\* the parts of C10 that do not concern the max points: the columns, the
\* first row's Student and roster cells, and the student rows
C10_Shape ==
    /\ out_df.columns = RosterColumns \o AssignmentColumns
    /\ Len(out_df.rows) = Len(df.rows) + 1
    /\ out_df.rows[1][Col("Student")] = <<"Points Possible">>
    /\ \A c \in {Col("ID"), Col("SIS User ID"), Col("SIS Login ID"),
                 Col("Section")} : out_df.rows[1][c] = Blank
    /\ \A k \in 1..Len(df.rows) :
        /\ out_df.rows[k + 1][Col("SIS User ID")] = df.rows[k][Col("SID")]
        /\ out_df.rows[k + 1][Col("SIS Login ID")] = df.rows[k][Col("Email")]
        /\ \A i \in 1..Len(AssignmentColumns) :
               out_df.rows[k + 1][AssignmentColumns[i]]
                   = df.rows[k][AssignmentColumns[i]]

\* C10 as stated: the first row holds, in each assignment column, the first
\* numeric value of the assignment's Max Points column.
C10_MaxPointsInEachColumn ==
    cpc = "done" =>
        /\ C10_Shape
        /\ \A i \in 1..Len(AssignmentColumns) :
               LET a == AssignmentColumns[i]
               IN  HasMaxPoints(a) /\ out_df.rows[1][a] = FirstMaxPoints(a)

\* C10 amended: the same, the first row's cell of an assignment being blank
\* when the input has no Max Points column for it or that column holds no
\* number.
C10_CanvasTable ==
    cpc = "done" =>
        /\ C10_Shape
        /\ \A i \in 1..Len(AssignmentColumns) :
               LET a == AssignmentColumns[i]
               IN  out_df.rows[1][a] =
                       IF HasMaxPoints(a) THEN FirstMaxPoints(a) ELSE Blank

\* a table of two students whose Max Points cells for Quiz 1 are blank and
\* then 20, beside an assignment without Max Points column
C10_Witness ==
    /\ cpc = "done"
    /\ Len(df.rows) = 2
    /\ HasMaxColumn(Quiz) /\ ~HasMaxColumn(Extra)
    /\ NumericRows(Quiz) = {2}
    /\ out_df.columns = RosterColumns \o <<Extra, Quiz>>
    /\ out_df.rows[1][Quiz] = Num(20)
    /\ out_df.rows[1][Extra] = Blank

============================================================================
